---- MODULE Spec2Model ----
(***************************************************************************)
(* Model of tensorflow/core/framework/shape_inference.cc: the arena-owned  *)
(* Dimension/Shape values of one InferenceContext and the operations that  *)
(* assert, merge and derive shapes.                                        *)
(*                                                                         *)
(* A handle (pointer to Dimension or to Shape) is an index into all_dims_ *)
(* or all_shapes_; nullptr is 0.  Two handles are identical iff the        *)
(* indices are equal.                                                      *)
(***************************************************************************)
EXTENDS Integers, Sequences, FiniteSets, TLC

VARIABLES
    all_dims_,       \* the values of the Dimensions the context owns
    all_shapes_,     \* the Shapes the context owns
    inputs_,         \* handles of the input shapes
    outputs_,        \* handles of the output shapes
    input_tensors_,  \* per input: << >> (nullptr) or <<tensor>>
    call,            \* the last call made on the context and its arguments
    out,             \* what that call stored in *out
    status,          \* the Status it returned
    entry,           \* the sizes of all_dims_ and all_shapes_ when it was made
    allocs           \* the number of calls so far that allocated

vars == <<all_dims_, all_shapes_, inputs_, outputs_, input_tensors_,
          call, out, status, entry, allocs>>

(***************************************************************************)
(* Bounds of the model.                                                    *)
(***************************************************************************)
MaxRank == 2
MaxTensorLen == 1
NumOutputs == 1
MaxAllocCalls == 1

NumInputs == 2

\* axis tokens of the shape specifiers fed to the constructor
AxisTokens == { <<"?">>, <<"2">>, <<"1", "0">> }
\* values handed to WithValue / CreateDim
ValueInputs == {-2, -1, 2, 10}
\* elements of the materialized input tensors
TensorElems == {-2, -1, 2}

(***************************************************************************)
(* Constants of the program.                                               *)
(***************************************************************************)
kUnknownRank == -1
kUnknownDim == -1
NULL == 0

(***************************************************************************)
(* Status values.                                                          *)
(***************************************************************************)
(* A Status is its code, the text of its message and the numbers the       *)
(* message is built from, in the order the source concatenates them.       *)
StatusOK == [code |-> "OK", msg |-> "", args |-> << >>]

InvalidArgument(m, numbers) ==
    [code |-> "INVALID_ARGUMENT", msg |-> m, args |-> numbers]

(***************************************************************************)
(* Accessors.  c is the arena: [dims |-> all_dims_, shapes |-> all_shapes_]*)
(***************************************************************************)
Value(c, d) == c.dims[d]

ValueKnown(c, d) == Value(c, d) # kUnknownDim

Rank(c, s) == c.shapes[s].rank

RankKnown(c, s) == Rank(c, s) # kUnknownRank

\* Dim(s, idx), idx counted from 0 as in the source
Dim(c, s, idx) == c.shapes[s].dims[idx + 1]

UnknownShapeValue == [rank |-> kUnknownRank, dims |-> << >>]

KnownShapeValue(dims) == [rank |-> Len(dims), dims |-> dims]

Ret(c, o, st) == [dims |-> c.dims, shapes |-> c.shapes, out |-> o, status |-> st]

(***************************************************************************)
(* Arena constructors.                                                     *)
(***************************************************************************)
CreateDim(c, value) ==
    Ret([c EXCEPT !.dims = Append(c.dims, value)], Len(c.dims) + 1, StatusOK)

CreateUnknownDim(c) ==
    Ret([c EXCEPT !.dims = Append(c.dims, kUnknownDim)], Len(c.dims) + 1, StatusOK)

CreateShape(c, dims) ==
    Ret([c EXCEPT !.shapes = Append(c.shapes, KnownShapeValue(dims))],
        Len(c.shapes) + 1, StatusOK)

CreateUnknownShape(c) ==
    Ret([c EXCEPT !.shapes = Append(c.shapes, UnknownShapeValue)],
        Len(c.shapes) + 1, StatusOK)

ReturnCreatedShape(c, dims) == CreateShape(c, dims)

ReturnUnknownShape(c) == CreateUnknownShape(c)

(***************************************************************************)
(* Rank / value assertion.                                                 *)
(***************************************************************************)
RECURSIVE NewUnknownDims(_, _)
\* the loop of WithRank: n times push a new Dimension() onto all_dims_
NewUnknownDims(dims, n) ==
    IF n <= 0 THEN dims ELSE NewUnknownDims(Append(dims, kUnknownDim), n - 1)

\* WithRank giving every axis of the new shape the same new dimension
WithRank_SharedDim(c, shape, rank) ==
    LET existing == Rank(c, shape) IN
    IF existing = rank THEN Ret(c, shape, StatusOK)
    ELSE IF existing = kUnknownRank THEN
        LET n == IF rank > 0 THEN rank ELSE 0
            dims == [i \in 1..n |-> Len(c.dims) + 1]
            c1 == [c EXCEPT !.dims = NewUnknownDims(c.dims, IF n > 0 THEN 1 ELSE 0)]
        IN  Ret([c1 EXCEPT !.shapes = Append(c.shapes, KnownShapeValue(dims))],
                Len(c.shapes) + 1, StatusOK)
    ELSE Ret(c, NULL, InvalidArgument("Shape must be rank _ but is rank _",
                                      <<rank, existing>>))

WithRank(c, shape, rank) ==
    LET existing == Rank(c, shape) IN
    IF existing = rank THEN Ret(c, shape, StatusOK)
    ELSE IF existing = kUnknownRank THEN
        LET n == IF rank > 0 THEN rank ELSE 0
            first == Len(c.dims)
            dims == [i \in 1..n |-> first + i]
            c1 == [c EXCEPT !.dims = NewUnknownDims(c.dims, rank)]
        IN  Ret([c1 EXCEPT !.shapes = Append(c.shapes, KnownShapeValue(dims))],
                Len(c.shapes) + 1, StatusOK)
    ELSE Ret(c, NULL, InvalidArgument("Shape must be rank _ but is rank _", <<rank, existing>>))

WithValue(c, dim, value) ==
    LET existing == Value(c, dim) IN
    IF existing = value THEN Ret(c, dim, StatusOK)
    ELSE IF existing = kUnknownDim THEN
        Ret([c EXCEPT !.dims = Append(c.dims, value)], Len(c.dims) + 1, StatusOK)
    ELSE Ret(c, NULL, InvalidArgument("Dimension must be _ but is _", <<value, existing>>))

(***************************************************************************)
(* Merge.                                                                  *)
(***************************************************************************)
\* MergeDim with the two unknown-value tests in the other order
MergeDim_PreferD1(c, d0, d1) ==
    IF d0 = d1 \/ ~ValueKnown(c, d0) THEN Ret(c, d1, StatusOK)
    ELSE IF ~ValueKnown(c, d1) THEN Ret(c, d0, StatusOK)
    ELSE IF Value(c, d0) = Value(c, d1) THEN Ret(c, d0, StatusOK)
    ELSE Ret(c, NULL, InvalidArgument("Dimensions must be equal, but are _ and _",
                                      <<Value(c, d0), Value(c, d1)>>))

MergeDim(c, d0, d1) ==
    IF d0 = d1 \/ ~ValueKnown(c, d1) THEN Ret(c, d0, StatusOK)
    ELSE IF ~ValueKnown(c, d0) THEN Ret(c, d1, StatusOK)
    ELSE IF Value(c, d0) = Value(c, d1) THEN Ret(c, d0, StatusOK)
    ELSE Ret(c, NULL, InvalidArgument("Dimensions must be equal, but are _ and _",
                                      <<Value(c, d0), Value(c, d1)>>))

\* MergeScan taking every pair of unequal values for a conflict
RECURSIVE MergeScan_UnknownConflicts(_, _, _, _, _, _)
MergeScan_UnknownConflicts(c, s0, s1, i, return_s0, return_s1) ==
    IF i >= Rank(c, s0)
    THEN [err |-> FALSE, axis |-> i, status |-> StatusOK,
          return_s0 |-> return_s0, return_s1 |-> return_s1]
    ELSE
        LET d0 == Dim(c, s0, i)
            d1 == Dim(c, s1, i)
            v0 == Value(c, d0)
            v1 == Value(c, d1)
        IN  IF d0 # d1 /\ v0 # v1 THEN
                [err |-> TRUE, axis |-> i,
                 status |-> InvalidArgument(
                     "Dimension _ in both shapes must be equal, but are _ and _",
                     <<i, v0, v1>>),
                 return_s0 |-> return_s0, return_s1 |-> return_s1]
            ELSE MergeScan_UnknownConflicts(c, s0, s1, i + 1, return_s0, return_s1)

RECURSIVE MergeScan(_, _, _, _, _, _)
\* the per-axis loop of Merge(Shape, Shape) from axis i on; the result is
\* the loop's outcome: the error it returned (err, status) or the two flags
\* it left
MergeScan(c, s0, s1, i, return_s0, return_s1) ==
    IF i >= Rank(c, s0)
    THEN [err |-> FALSE, axis |-> i, status |-> StatusOK,
          return_s0 |-> return_s0, return_s1 |-> return_s1]
    ELSE
        LET d0 == Dim(c, s0, i)
            d1 == Dim(c, s1, i)
            v0 == Value(c, d0)
            v1 == Value(c, d1)
        IN  IF d0 = d1 THEN MergeScan(c, s0, s1, i + 1, return_s0, return_s1)
            ELSE IF v0 = kUnknownDim THEN
                MergeScan(c, s0, s1, i + 1,
                          IF v1 # kUnknownDim THEN FALSE ELSE return_s0, return_s1)
            ELSE IF v1 = kUnknownDim THEN
                MergeScan(c, s0, s1, i + 1, return_s0, FALSE)
            ELSE IF v0 # v1 THEN
                [err |-> TRUE, axis |-> i,
                 status |-> InvalidArgument(
                     "Dimension _ in both shapes must be equal, but are _ and _",
                     <<i, v0, v1>>),
                 return_s0 |-> return_s0, return_s1 |-> return_s1]
            ELSE MergeScan(c, s0, s1, i + 1, return_s0, return_s1)

\* MergeSelect preferring s1 to s0
MergeSelect_PreferS1(c, s0, s1, return_s0, return_s1) ==
    IF return_s0 \/ return_s1
    THEN Ret(c, IF return_s1 THEN s1 ELSE s0, StatusOK)
    ELSE
        LET dims == [i \in 1..Rank(c, s0) |->
                       MergeDim(c, Dim(c, s0, i - 1), Dim(c, s1, i - 1)).out]
        IN  ReturnCreatedShape(c, dims)

\* MergeSelect building the new shape from the dimensions of s0 alone
MergeSelect_NoDimMerge(c, s0, s1, return_s0, return_s1) ==
    IF return_s0 \/ return_s1
    THEN Ret(c, IF return_s0 THEN s0 ELSE s1, StatusOK)
    ELSE ReturnCreatedShape(c, c.shapes[s0].dims)

\* what Merge(Shape, Shape) returns after a scan that found no conflict; the
\* scan has excluded the conflicts TF_CHECK_OK would abort on
MergeSelect(c, s0, s1, return_s0, return_s1) ==
    IF return_s0 \/ return_s1
    THEN Ret(c, IF return_s0 THEN s0 ELSE s1, StatusOK)
    ELSE
        LET dims == [i \in 1..Rank(c, s0) |->
                       MergeDim(c, Dim(c, s0, i - 1), Dim(c, s1, i - 1)).out]
        IN  ReturnCreatedShape(c, dims)

\* Merge(Shape, Shape) on two distinct shapes of known rank
MergeKnownRank(c, s0, s1) ==
    LET rank == Rank(c, s0) IN
    IF rank # Rank(c, s1)
    THEN Ret(c, NULL, InvalidArgument("Shapes must be equal rank, but are _ and _",
                                      <<rank, Rank(c, s1)>>))
    ELSE
        LET scan == MergeScan(c, s0, s1, 0, TRUE, TRUE) IN
        IF scan.err THEN Ret(c, NULL, scan.status)
        ELSE MergeSelect(c, s0, s1, scan.return_s0, scan.return_s1)

\* MergeShape with the two unknown-rank tests in the other order
MergeShape_PreferS1(c, s0, s1) ==
    IF s0 = s1 \/ ~RankKnown(c, s0) THEN Ret(c, s1, StatusOK)
    ELSE IF ~RankKnown(c, s1) THEN Ret(c, s0, StatusOK)
    ELSE MergeKnownRank(c, s0, s1)

MergeShape(c, s0, s1) ==
    IF s0 = s1 \/ ~RankKnown(c, s1) THEN Ret(c, s0, StatusOK)
    ELSE IF ~RankKnown(c, s0) THEN Ret(c, s1, StatusOK)
    ELSE MergeKnownRank(c, s0, s1)

(***************************************************************************)
(* Subshape and Concatenate.                                               *)
(***************************************************************************)
\* Subshape refusing start = rank
Subshape_StrictStart(c, s, start) ==
    IF start < 0
    THEN Ret(c, NULL, InvalidArgument("Negative start is not implemented; got _",
                                      <<start>>))
    ELSE IF start = 0 THEN Ret(c, s, StatusOK)
    ELSE
        LET rank == Rank(c, s) IN
        IF ~RankKnown(c, s) THEN ReturnUnknownShape(c)
        ELSE IF rank <= start
        THEN Ret(c, NULL, InvalidArgument("Shape must have rank >= _, but is _",
                                      <<start, rank>>))
        ELSE ReturnCreatedShape(c, [k \in 1..(rank - start) |-> Dim(c, s, start + k - 1)])

Subshape(c, s, start) ==
    IF start < 0
    THEN Ret(c, NULL, InvalidArgument("Negative start is not implemented; got _",
                                      <<start>>))
    ELSE IF start = 0 THEN Ret(c, s, StatusOK)
    ELSE
        LET rank == Rank(c, s) IN
        IF ~RankKnown(c, s) THEN ReturnUnknownShape(c)
        ELSE IF rank < start
        THEN Ret(c, NULL, InvalidArgument("Shape must have rank >= _, but is _",
                                      <<start, rank>>))
        ELSE ReturnCreatedShape(c, [k \in 1..(rank - start) |-> Dim(c, s, start + k - 1)])

Concatenate(c, s1, s2) ==
    IF ~RankKnown(c, s1) \/ ~RankKnown(c, s2) THEN ReturnUnknownShape(c)
    ELSE ReturnCreatedShape(c, c.shapes[s1].dims \o c.shapes[s2].dims)

(***************************************************************************)
(* Shape from the materialized value of an input tensor.  A tensor is      *)
(* [dims |-> its rank, dtype |-> its element type, flat |-> its elements]; *)
(* input_tensors_[i] is << >> for nullptr or <<t>>.                        *)
(***************************************************************************)
RECURSIVE CreateDims_NegativeUnknown(_, _, _, _)
\* the element loop creating an unknown dimension for a negative element
CreateDims_NegativeUnknown(c, flat, k, dims) ==
    IF k > Len(flat) THEN [c |-> c, dims |-> dims]
    ELSE LET r == IF flat[k] < 0 THEN CreateUnknownDim(c) ELSE CreateDim(c, flat[k])
         IN  CreateDims_NegativeUnknown([dims |-> r.dims, shapes |-> r.shapes], flat,
                                        k + 1, Append(dims, r.out))

RECURSIVE CreateDims(_, _, _, _)
\* the element loop: dims.push_back(CreateDim(flat_t(i))) for i = k .. size-1
CreateDims(c, flat, k, dims) ==
    IF k > Len(flat) THEN [c |-> c, dims |-> dims]
    ELSE LET r == CreateDim(c, flat[k])
         IN  CreateDims([dims |-> r.dims, shapes |-> r.shapes], flat, k + 1,
                        Append(dims, r.out))

input_tensor(tensors, idx) == tensors[idx + 1]

\* CreateShapeFromShapeTensor reading the elements before it looks at the
\* element type
CreateShapeFromShapeTensor_ReadFirst(c, tensors, input_idx) ==
    LET t == input_tensor(tensors, input_idx) IN
    IF t = << >> THEN ReturnUnknownShape(c)
    ELSE IF t[1].dims # 1
    THEN Ret(c, NULL, InvalidArgument("Input tensor must be rank 1, but was rank _",
                                      <<t[1].dims>>))
    ELSE LET r == CreateDims(c, t[1].flat, 1, << >>) IN
         IF t[1].dtype \in {"DT_INT32", "DT_INT64"}
         THEN ReturnCreatedShape(r.c, r.dims)
         ELSE Ret(r.c, NULL,
                  InvalidArgument("Input tensor must be int32 or int64, but was _",
                                  << >>))

CreateShapeFromShapeTensor(c, tensors, input_idx) ==
    LET t == input_tensor(tensors, input_idx) IN
    IF t = << >> THEN ReturnUnknownShape(c)
    ELSE IF t[1].dims # 1
    THEN Ret(c, NULL, InvalidArgument("Input tensor must be rank 1, but was rank _",
                                      <<t[1].dims>>))
    ELSE IF t[1].dtype \in {"DT_INT32", "DT_INT64"}
    THEN LET r == CreateDims(c, t[1].flat, 1, << >>)
         IN  ReturnCreatedShape(r.c, r.dims)
    ELSE Ret(c, NULL, InvalidArgument("Input tensor must be int32 or int64, but was _",
                                      << >>))

(***************************************************************************)
(* Debug rendering.  A string is a sequence of one-character strings.      *)
(***************************************************************************)
DigitChars == <<"0", "1", "2", "3", "4", "5", "6", "7", "8", "9">>

RECURSIVE NatToChars(_)
NatToChars(n) ==
    IF n < 10 THEN <<DigitChars[n + 1]>>
    ELSE NatToChars(n \div 10) \o <<DigitChars[(n % 10) + 1]>>

\* strings::StrCat of an int64
StrCat(n) == IF n < 0 THEN <<"-">> \o NatToChars(-n) ELSE NatToChars(n)

DebugStringDim(c, d) == IF ValueKnown(c, d) THEN StrCat(Value(c, d)) ELSE <<"?">>

RECURSIVE Join(_, _)
Join(vals, sep) ==
    IF vals = << >> THEN << >>
    ELSE IF Len(vals) = 1 THEN vals[1]
    ELSE vals[1] \o sep \o Join(Tail(vals), sep)

DebugStringShape(c, s) ==
    IF RankKnown(c, s)
    THEN <<"[">> \o Join([i \in 1..Rank(c, s) |-> DebugStringDim(c, Dim(c, s, i - 1))],
                         <<",">>) \o <<"]">>
    ELSE <<"?">>

(***************************************************************************)
(* The constructor: parsing of the shape specifiers.                       *)
(***************************************************************************)
Peek(rest) == IF rest = << >> THEN "\\0" ELSE rest[1]

IsDigit(ch) == \E k \in 1..10 : DigitChars[k] = ch

DigitValue(ch) == (CHOOSE k \in 1..10 : DigitChars[k] = ch) - 1

RECURSIVE ManyDigits(_)
\* Scanner::Many(DIGIT): the longest prefix of digits
ManyDigits(rest) ==
    IF rest # << >> /\ IsDigit(rest[1]) THEN <<rest[1]>> \o ManyDigits(Tail(rest))
    ELSE << >>

RECURSIVE safe_strto64(_, _)
safe_strto64(match, acc) ==
    IF match = << >> THEN acc
    ELSE safe_strto64(Tail(match), 10 * acc + DigitValue(match[1]))

RECURSIVE ParseAxes(_, _, _)
\* the while loop of the constructor; ok is FALSE when a CHECK fails
ParseAxes(c, rest, dims) ==
    IF Peek(rest) = "]" THEN [ok |-> TRUE, c |-> c, rest |-> rest, dims |-> dims]
    ELSE
        LET isq == Peek(rest) = "?"
            match == ManyDigits(rest)
            checked == isq \/ match # << >>
            r == IF isq THEN CreateUnknownDim(c)
                 ELSE CreateDim(c, safe_strto64(match, 0))
            after == IF isq THEN Tail(rest) ELSE SubSeq(rest, Len(match) + 1, Len(rest))
            c1 == [dims |-> r.dims, shapes |-> r.shapes]
        IN  IF ~checked THEN [ok |-> FALSE, c |-> c, rest |-> rest, dims |-> dims]
            ELSE IF Peek(after) = ","
            THEN ParseAxes(c1, Tail(after), Append(dims, r.out))
            ELSE IF Peek(after) = "]"
            THEN ParseAxes(c1, after, Append(dims, r.out))
            ELSE [ok |-> FALSE, c |-> c1, rest |-> after, dims |-> dims]

\* one iteration of the loop over input_shapes
ParseSpec(c, spec) ==
    IF spec = <<"?">> THEN [ok |-> TRUE, r |-> CreateUnknownShape(c)]
    ELSE IF Peek(spec) # "["
    THEN [ok |-> FALSE, r |-> Ret(c, NULL, StatusOK)]
    ELSE LET p == ParseAxes(c, Tail(spec), << >>)
         IN  [ok |-> p.ok /\ p.rest = <<"]">>, r |-> CreateShape(p.c, p.dims)]

RECURSIVE ParseInputs(_, _, _, _)
ParseInputs(c, input_shapes, k, inputs) ==
    IF k > Len(input_shapes) THEN [ok |-> TRUE, c |-> c, inputs |-> inputs]
    ELSE LET p == ParseSpec(c, input_shapes[k])
         IN  IF ~p.ok THEN [ok |-> FALSE, c |-> c, inputs |-> inputs]
             ELSE ParseInputs([dims |-> p.r.dims, shapes |-> p.r.shapes],
                              input_shapes, k + 1, Append(inputs, p.r.out))

RECURSIVE MakeOutputs(_, _, _)
MakeOutputs(c, n, outputs) ==
    IF n <= 0 THEN [c |-> c, outputs |-> outputs]
    ELSE LET r == CreateUnknownShape(c)
         IN  MakeOutputs([dims |-> r.dims, shapes |-> r.shapes], n - 1,
                         Append(outputs, r.out))

\* input_tensors_.resize(input_shapes.size())
Resize(tensors, n) == [i \in 1..n |-> IF i <= Len(tensors) THEN tensors[i] ELSE << >>]

\* InferenceContext(input_shapes, num_outputs, input_tensors); ok is FALSE
\* when one of its CHECKs aborts
Construct(input_shapes, num_outputs, input_tensors) ==
    LET p == ParseInputs([dims |-> << >>, shapes |-> << >>], input_shapes, 1, << >>)
        o == MakeOutputs(p.c, num_outputs, << >>)
    IN  [ok |-> p.ok /\ Len(input_tensors) <= Len(input_shapes),
         dims |-> o.c.dims, shapes |-> o.c.shapes,
         inputs |-> p.inputs, outputs |-> o.outputs,
         tensors |-> Resize(input_tensors, Len(input_shapes))]

(***************************************************************************)
(* Inputs of the model.                                                    *)
(***************************************************************************)
SeqsUpTo(S, n) == UNION { [1..k -> S] : k \in 0..n }

SpecOf(axes) == <<"[">> \o Join(axes, <<",">>) \o <<"]">>

ShapeSpecs == { <<"?">> } \cup { SpecOf(axes) : axes \in SeqsUpTo(AxisTokens, MaxRank) }

ShapeTensors ==
    { [dims |-> 1, dtype |-> dt, flat |-> f] :
        dt \in {"DT_INT32", "DT_INT64"}, f \in SeqsUpTo(TensorElems, MaxTensorLen) }

OtherTensors ==
    { [dims |-> 1, dtype |-> "DT_FLOAT", flat |-> <<2>>],
      [dims |-> 2, dtype |-> "DT_INT32", flat |-> <<2>>],
      [dims |-> 0, dtype |-> "DT_INT64", flat |-> <<2>>] }

\* the input_tensors argument: no pointer, or one pointer to a tensor
TensorLists == { << >> } \cup { << <<t>> >> : t \in ShapeTensors \cup OtherTensors }

TensorInputSpecs ==
    { <<"?">> } \cup { SpecOf(axes) : axes \in SeqsUpTo(AxisTokens, MaxTensorLen) }

\* the ranks asked of WithRank; below kUnknownRank dims.reserve(rank) throws
Ranks == kUnknownRank .. (MaxRank + 1)

Starts == (-1) .. (MaxRank + 1)

(***************************************************************************)
(* The session.                                                            *)
(***************************************************************************)
NoCall == [op |-> "none", x |-> 0, y |-> 0]

\* the arguments the context is constructed with: any specifiers and no
\* tensor, or one materialized tensor for input 0 and specifiers no longer
\* than a tensor
ConstructorInputs ==
    ([1..NumInputs -> ShapeSpecs] \X { << >> })
    \cup ([1..NumInputs -> TensorInputSpecs] \X TensorLists)

Init ==
    \E args \in ConstructorInputs :
        LET input_shapes == args[1]
            input_tensors == args[2]
            k == Construct(input_shapes, NumOutputs, input_tensors) IN
        /\ k.ok
        /\ all_dims_ = k.dims
        /\ all_shapes_ = k.shapes
        /\ inputs_ = k.inputs
        /\ outputs_ = k.outputs
        /\ input_tensors_ = k.tensors
        /\ call = NoCall
        /\ out = NULL
        /\ status = StatusOK
        /\ entry = [dims |-> Len(k.dims), shapes |-> Len(k.shapes)]
        /\ allocs = 0

Arena == [dims |-> all_dims_, shapes |-> all_shapes_]

DimHandles == 1..Len(all_dims_)

ShapeHandles == 1..Len(all_shapes_)

Allocated(r) == Len(r.dims) > Len(all_dims_) \/ Len(r.shapes) > Len(all_shapes_)

\* A call that allocated nothing has left the arena as it found it, so the
\* calls that can follow it are the calls that could be made in its place:
\* the model makes a call only on a context no call has been made on yet or
\* on one the last call has added to.
Callable ==
    \/ call = NoCall
    \/ Len(all_dims_) > entry.dims
    \/ Len(all_shapes_) > entry.shapes

\* the effect of a call that returned r
Return(op, x, y, r) ==
    /\ Callable
    /\ Allocated(r) => allocs < MaxAllocCalls
    /\ all_dims_' = r.dims
    /\ all_shapes_' = r.shapes
    /\ call' = [op |-> op, x |-> x, y |-> y]
    /\ out' = r.out
    /\ status' = r.status
    /\ entry' = [dims |-> Len(all_dims_), shapes |-> Len(all_shapes_)]
    /\ allocs' = IF Allocated(r) THEN allocs + 1 ELSE allocs
    /\ UNCHANGED <<inputs_, outputs_, input_tensors_>>

DoWithRank ==
    \E shape \in ShapeHandles, rank \in Ranks :
        Return("WithRank", shape, rank, WithRank(Arena, shape, rank))

DoWithValue ==
    \E dim \in DimHandles, value \in ValueInputs :
        Return("WithValue", dim, value, WithValue(Arena, dim, value))

DoMergeDim ==
    \E d0 \in DimHandles, d1 \in DimHandles :
        Return("MergeDim", d0, d1, MergeDim(Arena, d0, d1))

DoMergeShape ==
    \E s0 \in ShapeHandles, s1 \in ShapeHandles :
        Return("MergeShape", s0, s1, MergeShape(Arena, s0, s1))

DoSubshape ==
    \E s \in ShapeHandles, start \in Starts :
        Return("Subshape", s, start, Subshape(Arena, s, start))

DoConcatenate ==
    \E s1 \in ShapeHandles, s2 \in ShapeHandles :
        Return("Concatenate", s1, s2, Concatenate(Arena, s1, s2))

\* CreateShape is handed any vector of dimensions of the context
DoCreateShape ==
    \E dims \in SeqsUpTo(DimHandles, MaxRank) :
        Return("CreateShape", Len(dims), 0, CreateShape(Arena, dims))

DoCreateShapeFromShapeTensor ==
    \E input_idx \in 0..(Len(input_tensors_) - 1) :
        Return("CreateShapeFromShapeTensor", input_idx, 0,
               CreateShapeFromShapeTensor(Arena, input_tensors_, input_idx))

DoCreateDim ==
    \E value \in ValueInputs :
        Return("CreateDim", value, 0, CreateDim(Arena, value))

DoCreateUnknownDim ==
    Return("CreateUnknownDim", 0, 0, CreateUnknownDim(Arena))

DoCreateUnknownShape ==
    Return("CreateUnknownShape", 0, 0, CreateUnknownShape(Arena))

Next ==
    \/ DoWithRank
    \/ DoWithValue
    \/ DoMergeDim
    \/ DoMergeShape
    \/ DoSubshape
    \/ DoConcatenate
    \/ DoCreateShape
    \/ DoCreateShapeFromShapeTensor
    \/ DoCreateDim
    \/ DoCreateUnknownDim
    \/ DoCreateUnknownShape

Spec == Init /\ [][Next]_vars

(***************************************************************************)
(* Properties.  In a state after a call, call.x and call.y are the call's  *)
(* arguments, out and status its results, and the arena holds what it held *)
(* on entry (the first entry.dims dimensions and entry.shapes shapes)      *)
(* followed by what the call allocated.                                    *)
(***************************************************************************)
OK == status.code = "OK"

Known(d) == ValueKnown(Arena, d)

\* C1 as stated: for every dimension d, known or unknown, merge(d, d) = d,
\* merge(u, d) = d and merge(d, u) = d for any unknown u, as handles.
C1_MergeDimIdentities_AsStated ==
    call.op = "MergeDim" =>
        /\ call.x = call.y => OK /\ out = call.x
        /\ ~Known(call.x) => OK /\ out = call.y
        /\ ~Known(call.y) => OK /\ out = call.x

\* C1 amended: merge(d, d) = d; merge(d, u) = d for any unknown u; and
\* merge(u, d) = d for an unknown u when d is known.  When both operands
\* are unknown the first operand's handle is returned.
C1_MergeDimIdentities ==
    call.op = "MergeDim" =>
        /\ call.x = call.y => OK /\ out = call.x
        /\ ~Known(call.y) => OK /\ out = call.x
        /\ ~Known(call.x) /\ Known(call.y) => OK /\ out = call.y

C1_Witness ==
    /\ call.op = "MergeDim"
    /\ call.x # call.y
    /\ ~Known(call.x)
    /\ ~Known(call.y)
    /\ OK
    /\ out = call.x

IsKnownRank(s) == RankKnown(Arena, s)

Axes(s) == 0 .. (Rank(Arena, s) - 1)

ValueAt(s, i) == Value(Arena, Dim(Arena, s, i))

KnownAt(s, i) == Known(Dim(Arena, s, i))

\* C2 as stated: for every shape s, rank-known or rank-unknown,
\* merge(s, s) = s and merge(u, s) = s for any rank-unknown u, as handles.
C2_MergeShapeIdentities_AsStated ==
    call.op = "MergeShape" =>
        /\ call.x = call.y => OK /\ out = call.x
        /\ ~IsKnownRank(call.x) => OK /\ out = call.y

\* C2 amended: merge(s, s) = s, and merge(u, s) = s for a rank-unknown u
\* when the rank of s is known.  When both operands are rank-unknown the
\* first operand's handle is returned.
C2_MergeShapeIdentities ==
    call.op = "MergeShape" =>
        /\ call.x = call.y => OK /\ out = call.x
        /\ ~IsKnownRank(call.x) /\ IsKnownRank(call.y) => OK /\ out = call.y
        /\ ~IsKnownRank(call.x) /\ ~IsKnownRank(call.y) => OK /\ out = call.x

C2_Witness ==
    /\ call.op = "MergeShape"
    /\ call.x # call.y
    /\ ~IsKnownRank(call.x)
    /\ ~IsKnownRank(call.y)
    /\ OK
    /\ out = call.x

\* C3: merge(s0, s1) succeeds exactly when merge(s1, s0) does; the two
\* results then have the same rank and the same value at every axis, the
\* result's rank is known when that of s0 or of s1 is, and each of its axes
\* is known when that axis is known in s0 or in s1.
C3_MergeShapeCommutes ==
    call.op = "MergeShape" =>
        LET r == MergeShape(Arena, call.y, call.x)
            B == [dims |-> r.dims, shapes |-> r.shapes]
        IN  /\ OK <=> r.status.code = "OK"
            /\ OK =>
                /\ Rank(B, r.out) = Rank(Arena, out)
                /\ \A i \in Axes(out) :
                       Value(B, Dim(B, r.out, i)) = ValueAt(out, i)
                /\ IsKnownRank(call.x) \/ IsKnownRank(call.y) => IsKnownRank(out)
                /\ IsKnownRank(call.x) /\ IsKnownRank(call.y) =>
                       \A i \in Axes(out) :
                           KnownAt(call.x, i) \/ KnownAt(call.y, i) =>
                               /\ KnownAt(out, i)
                               /\ ValueKnown(B, Dim(B, r.out, i))

C3_Witness ==
    /\ call.op = "MergeShape"
    /\ OK
    /\ IsKnownRank(call.x) /\ IsKnownRank(call.y)
    /\ out # call.x /\ out # call.y
    /\ MergeShape(Arena, call.y, call.x).status.code = "OK"
    /\ \E i \in Axes(out) : KnownAt(call.x, i) /\ ~KnownAt(call.y, i)

\* the precondition of C4: two distinct shapes of the same known rank with
\* no axis where both values are known and unequal
Compatible(s0, s1) ==
    /\ s0 # s1
    /\ IsKnownRank(s0) /\ IsKnownRank(s1)
    /\ Rank(Arena, s0) = Rank(Arena, s1)
    /\ \A i \in Axes(s0) :
           ~(KnownAt(s0, i) /\ KnownAt(s1, i) /\ ValueAt(s0, i) # ValueAt(s1, i))

\* some axis is unknown in s and known in t
Lacks(s, t) == \E i \in Axes(s) : ~KnownAt(s, i) /\ KnownAt(t, i)

\* C4: on compatible shapes merge returns s0 when s0 lacks nothing s1
\* knows, else s1 when s1 lacks nothing s0 knows, else a new shape whose
\* axis i is the dimension merge of axis i of s0 and of s1.
C4_MergeShapeResult ==
    call.op = "MergeShape" /\ Compatible(call.x, call.y) =>
        /\ OK
        /\ IF ~Lacks(call.x, call.y) THEN out = call.x
           ELSE IF ~Lacks(call.y, call.x) THEN out = call.y
           ELSE /\ out = Len(all_shapes_)
                /\ out > entry.shapes
                /\ Len(all_dims_) = entry.dims
                /\ Rank(Arena, out) = Rank(Arena, call.x)
                /\ \A i \in Axes(out) :
                       Dim(Arena, out, i) =
                           MergeDim(Arena, Dim(Arena, call.x, i),
                                    Dim(Arena, call.y, i)).out

C4_Witness ==
    /\ call.op = "MergeShape"
    /\ DebugStringShape(Arena, call.x) = <<"[", "2", ",", "?", "]">>
    /\ DebugStringShape(Arena, call.y) = <<"[", "?", ",", "1", "0", "]">>
    /\ out > entry.shapes
    /\ DebugStringShape(Arena, out) = <<"[", "2", ",", "1", "0", "]">>

\* axis i holds distinct handles with known, unequal values
ConflictAt(s0, s1, i) ==
    /\ Dim(Arena, s0, i) # Dim(Arena, s1, i)
    /\ KnownAt(s0, i) /\ KnownAt(s1, i)
    /\ ValueAt(s0, i) # ValueAt(s1, i)

\* C5: merge of two distinct rank-known shapes fails exactly when the ranks
\* differ (reporting the two ranks) or, the ranks being equal, some axis is
\* in conflict (reporting the lowest such axis and the two values there).
C5_MergeShapeFailures ==
    call.op = "MergeShape" /\ call.x # call.y
    /\ IsKnownRank(call.x) /\ IsKnownRank(call.y) =>
        IF Rank(Arena, call.x) # Rank(Arena, call.y)
        THEN /\ out = NULL
             /\ status = InvalidArgument("Shapes must be equal rank, but are _ and _",
                                         <<Rank(Arena, call.x), Rank(Arena, call.y)>>)
        ELSE LET conflicts == { i \in Axes(call.x) : ConflictAt(call.x, call.y, i) }
                 low == CHOOSE i \in conflicts : \A k \in conflicts : i <= k
             IN  IF conflicts = {} THEN OK /\ out # NULL
                 ELSE /\ out = NULL
                      /\ status = InvalidArgument(
                             "Dimension _ in both shapes must be equal, but are _ and _",
                             <<low, ValueAt(call.x, low), ValueAt(call.y, low)>>)

C5_Witness ==
    /\ call.op = "MergeShape"
    /\ DebugStringShape(Arena, call.x) = <<"[", "2", ",", "2", "]">>
    /\ DebugStringShape(Arena, call.y) = <<"[", "2", ",", "1", "0", "]">>
    /\ out = NULL
    /\ status.args = <<1, 2, 10>>

\* the dimensions and shapes the last call allocated
NewDims == (entry.dims + 1) .. Len(all_dims_)

NewShapes == (entry.shapes + 1) .. Len(all_shapes_)

NothingAllocated == NewDims = {} /\ NewShapes = {}

\* out is a shape the call allocated, of rank n, whose axes are n
\* dimensions the call allocated, each its own
FreshShapeOfFreshDims(n) ==
    /\ NewShapes = {out}
    /\ Rank(Arena, out) = n
    /\ Len(all_shapes_[out].dims) = n
    /\ NewDims = { Dim(Arena, out, i) : i \in Axes(out) }
    /\ Cardinality(NewDims) = n

\* what C6 says of a shape of known rank
C6_KnownRankCases ==
    call.op = "WithRank" /\ IsKnownRank(call.x) =>
        IF Rank(Arena, call.x) = call.y
        THEN OK /\ out = call.x /\ NothingAllocated
        ELSE /\ out = NULL
             /\ status = InvalidArgument("Shape must be rank _ but is rank _",
                                         <<call.y, Rank(Arena, call.x)>>)

\* C6 as stated: on a rank-unknown shape, for every requested rank r, the
\* result is a new shape of rank r whose axes are r new unknown dimensions.
C6_WithRank_AsStated ==
    /\ C6_KnownRankCases
    /\ call.op = "WithRank" /\ ~IsKnownRank(call.x) =>
           /\ OK
           /\ FreshShapeOfFreshDims(call.y)
           /\ \A i \in Axes(out) : ~KnownAt(out, i)

\* C6 amended: as stated for every requested rank r >= 0; a rank-unknown
\* shape asked for rank kUnknownRank (-1) is returned as it is and nothing
\* is allocated.
C6_WithRank ==
    /\ C6_KnownRankCases
    /\ call.op = "WithRank" /\ ~IsKnownRank(call.x) =>
           IF call.y >= 0
           THEN /\ OK
                /\ FreshShapeOfFreshDims(call.y)
                /\ \A i \in Axes(out) : ~KnownAt(out, i)
           ELSE call.y = kUnknownRank => OK /\ out = call.x /\ NothingAllocated

C6_Witness ==
    /\ call.op = "WithRank"
    /\ ~IsKnownRank(call.x)
    /\ call.y = 2
    /\ OK
    /\ DebugStringShape(Arena, out) = <<"[", "?", ",", "?", "]">>
    /\ Dim(Arena, out, 0) # Dim(Arena, out, 1)

\* C7: subshape(s, start) fails for start < 0; returns s for start = 0;
\* for start > 0 returns a new rank-unknown shape when s is rank-unknown,
\* fails when start > rank(s), and otherwise returns a new shape of rank
\* rank(s) - start whose axis i is the handle of axis start + i of s.
C7_Subshape ==
    call.op = "Subshape" =>
        IF call.y < 0
        THEN out = NULL /\ status.code = "INVALID_ARGUMENT"
                        /\ status.args = <<call.y>>
        ELSE IF call.y = 0 THEN OK /\ out = call.x /\ NothingAllocated
        ELSE IF ~IsKnownRank(call.x)
        THEN OK /\ NewShapes = {out} /\ NewDims = {} /\ ~IsKnownRank(out)
        ELSE IF call.y > Rank(Arena, call.x)
        THEN out = NULL /\ status.code = "INVALID_ARGUMENT"
                        /\ status.args = <<call.y, Rank(Arena, call.x)>>
        ELSE /\ OK
             /\ NewShapes = {out} /\ NewDims = {}
             /\ Rank(Arena, out) = Rank(Arena, call.x) - call.y
             /\ \A i \in Axes(out) : Dim(Arena, out, i) = Dim(Arena, call.x, call.y + i)

C7_Witness ==
    /\ call.op = "Subshape"
    /\ DebugStringShape(Arena, call.x) = <<"[", "2", ",", "1", "0", "]">>
    /\ call.y = 1
    /\ OK
    /\ DebugStringShape(Arena, out) = <<"[", "1", "0", "]">>
    /\ Dim(Arena, out, 0) = Dim(Arena, call.x, 1)

\* the tensor CreateShapeFromShapeTensor was called on
CalledTensor == input_tensor(input_tensors_, call.x)

IsShapeTensor(t) ==
    t # << >> /\ t[1].dims = 1 /\ t[1].dtype \in {"DT_INT32", "DT_INT64"}

\* what C8 says of the other inputs: a new rank-unknown shape without a
\* materialized value, InvalidArgument for another rank or element type
C8_OtherCases ==
    call.op = "CreateShapeFromShapeTensor" /\ ~IsShapeTensor(CalledTensor) =>
        IF CalledTensor = << >>
        THEN OK /\ NewShapes = {out} /\ NewDims = {} /\ ~IsKnownRank(out)
        ELSE out = NULL /\ status.code = "INVALID_ARGUMENT"

\* C8 as stated: from a rank-1 int32 or int64 tensor of n elements the
\* result is a new shape of rank n whose axis i is a new dimension holding
\* element i; no element, negative or not, gives an unknown dimension.
C8_ShapeFromTensor_AsStated ==
    /\ C8_OtherCases
    /\ call.op = "CreateShapeFromShapeTensor" /\ IsShapeTensor(CalledTensor) =>
           LET flat == CalledTensor[1].flat IN
           /\ OK
           /\ FreshShapeOfFreshDims(Len(flat))
           /\ \A i \in Axes(out) :
                  /\ Dim(Arena, out, i) = entry.dims + i + 1
                  /\ ValueAt(out, i) = flat[i + 1]
                  /\ KnownAt(out, i)

\* C8 amended: axis i holds element i for every element; the dimension is
\* known for every element but -1, negative ones included, and an element
\* -1 (the value of kUnknownDim) gives an unknown dimension.
C8_ShapeFromTensor ==
    /\ C8_OtherCases
    /\ call.op = "CreateShapeFromShapeTensor" /\ IsShapeTensor(CalledTensor) =>
           LET flat == CalledTensor[1].flat IN
           /\ OK
           /\ FreshShapeOfFreshDims(Len(flat))
           /\ \A i \in Axes(out) :
                  /\ Dim(Arena, out, i) = entry.dims + i + 1
                  /\ ValueAt(out, i) = flat[i + 1]
                  /\ KnownAt(out, i) <=> flat[i + 1] # -1

C8_Witness ==
    /\ call.op = "CreateShapeFromShapeTensor"
    /\ IsShapeTensor(CalledTensor)
    /\ CalledTensor[1].flat = <<-1>>
    /\ OK
    /\ DebugStringShape(Arena, out) = <<"[", "?", "]">>

\* C9: every dimension of the arena is unknown or holds a non-negative
\* value.
C9_NoNegativeDimension ==
    \A d \in DimHandles : ~Known(d) \/ Value(Arena, d) >= 0

\* C10: a call that returns an error stores nullptr in *out and leaves the
\* arena, the inputs and the outputs as they were.
C10_FailureChangesNothing ==
    [][status'.code # "OK" =>
          /\ out' = NULL
          /\ all_dims_' = all_dims_
          /\ all_shapes_' = all_shapes_
          /\ inputs_' = inputs_
          /\ outputs_' = outputs_]_vars

C10_Witness ==
    /\ call.op = "CreateShapeFromShapeTensor"
    /\ CalledTensor # << >>
    /\ CalledTensor[1].dims = 1
    /\ CalledTensor[1].dtype = "DT_FLOAT"
    /\ CalledTensor[1].flat # << >>
    /\ status.code = "INVALID_ARGUMENT"
    /\ out = NULL
    /\ NothingAllocated

====
